---- MODULE Spec2Model ----
(***************************************************************************)
(* libccsds: CCSDS Space Packet Protocol services.                         *)
(*                                                                         *)
(* The model follows src/src/spp_service.cpp (the revision with reception, *)
(* lines 127-313), the chained data unit of ccsds/common.h                 *)
(* (src/unnamed/part_003) and the two subnetwork stubs of the unit test    *)
(* (src/unnamed/part_004).                                                 *)
(***************************************************************************)
EXTENDS Integers, Sequences, FiniteSets, TLC

VARIABLES
    host,     \* byte order the library was built for: "little" or "big"
    oct,      \* the octet_service instances
    pkt,      \* a stand-alone packet_service
    last,     \* test_service::last, the chain the dead-end subnetwork holds
    loopback, \* loopback_service: the octet service it delivers to
    stub,     \* error_service: the error its transfer answers with
    heap,     \* the data units a caller allocates and the unique_ptrs that hold them
    out,      \* observation of the latest call: result, transfers, indications
    hist      \* observation: what has happened to each service since construction

vars == <<host, oct, pkt, last, loopback, stub, heap, out, hist>>

-----------------------------------------------------------------------------
(* Bounds of the model.                                                    *)

\* Largest number of counter-based requests made on one service under Spec.
MaxCount == 2
\* Largest number of counter-based requests under SpecWrap.
MaxWrap == 65540
\* Largest number of data units allocated at one time under SpecHeap.
MaxNodes == 3

-----------------------------------------------------------------------------
(* Fixed-width integers and the bit operators of C.                        *)

U16 == 2 ^ 16

\* Conversion of an integer to uint16_t (the argument of htons, the type of
\* packet_count and of count).
ToU16(x) == x % U16

\* a & b, bit by bit from the low end.
RECURSIVE BitAnd(_, _)
BitAnd(a, b) ==
    IF a = 0 \/ b = 0 THEN 0
    ELSE (IF a % 2 = 1 /\ b % 2 = 1 THEN 1 ELSE 0) + 2 * BitAnd(a \div 2, b \div 2)

\* a | b, bit by bit from the low end.
RECURSIVE BitOr(_, _)
BitOr(a, b) ==
    IF a = 0 THEN b
    ELSE IF b = 0 THEN a
    ELSE (IF a % 2 = 1 \/ b % 2 = 1 THEN 1 ELSE 0) + 2 * BitOr(a \div 2, b \div 2)

Shl(a, k) == a * (2 ^ k)
Shr(a, k) == a \div (2 ^ k)

-----------------------------------------------------------------------------
(* ccsds/common.h: byte order.                                             *)

\* A swap that moves the low byte up and loses the high byte.
swaps_low(x) == ToU16(Shl(BitAnd(x, 255), 8))

swaps(x) == ToU16(BitOr(Shl(BitAnd(x, 255), 8), BitAnd(Shr(x, 8), 255)))

\* htons that leaves the host order in place.
htonsIdentity(x) == ToU16(x)

\* The parameter is a uint16_t: the argument is converted on the call.
htons(x) == IF host = "little" THEN swaps(ToU16(x)) ELSE ToU16(x)

ntohs(x) == IF host = "little" THEN swaps(ToU16(x)) ELSE ToU16(x)

-----------------------------------------------------------------------------
(* ccsds/common.h: error codes.                                            *)

NONE == "NONE"
NO_SUPPORT == "NO_SUPPORT"
NO_NETWORK == "NO_NETWORK"

\* enum error::code.
ErrorCodes == {NONE, NO_SUPPORT, NO_NETWORK}

-----------------------------------------------------------------------------
(* ccsds/common.h: chained data units.  A chain is the sequence of its     *)
(* nodes, head first; the empty sequence is a null unique_ptr.             *)

NullDU == << >>

\* buffered_du(buf, len): borrows the caller's buffer buf of len bytes.
buffered_du(buf, len) == [type |-> "buffered_du", buffer |-> buf, length |-> len]

\* sizeof(space_packet), the buffer of a pdu node.
SizeofSpacePacket == 6

\* du<space_packet>: the header node, with the three fields as the struct holds them.
pdu_node(ident, seq, len) ==
    [type |-> "pdu", identification |-> ident, sequence_control |-> seq,
     data_length |-> len]

size(node) == IF node.type = "pdu" THEN SizeofSpacePacket ELSE node.length

\* A total that stops at the direct successor: size() + ptr->size().
totalSize_direct(du) ==
    IF Len(du) > 1 THEN size(du[1]) + size(du[2]) ELSE size(du[1])

RECURSIVE totalSize(_)
totalSize(du) ==
    IF Len(du) > 1 THEN size(du[1]) + totalSize(Tail(du)) ELSE size(du[1])

RECURSIVE length(_)
length(du) == IF Len(du) > 1 THEN length(Tail(du)) + 1 ELSE 1

\* An append that leaves the head without the chain it was given.
append_dropping(head, du) == <<head[1]>>

\* head.append(du): ptr.swap(du); the head's former successor is destroyed.
append(head, du) == <<head[1]>> \o du

\* A pop that hands out the whole chain, head included.
pop_whole(head) == [ret |-> head, self |-> <<head[1]>>]

\* head.pop(): the successor chain is moved out, the head stays alone.
pop(head) == [ret |-> Tail(head), self |-> <<head[1]>>]

next(head) == Tail(head)

\* The octets of a header node in memory order, as packet.get() shows them.
FieldBytes(f) ==
    IF host = "little" THEN <<f % 256, f \div 256>> ELSE <<f \div 256, f % 256>>

HeaderBytes(node) ==
    FieldBytes(node.identification) \o FieldBytes(node.sequence_control)
        \o FieldBytes(node.data_length)

-----------------------------------------------------------------------------
(* ccsds/common.h: the same chains at the level of pointers, for the data  *)
(* units a caller allocates and links itself.  A heap H has the allocated  *)
(* nodes, each with its data unit and its ptr (0 is nullptr), and the      *)
(* unique_ptr variables outside the nodes with the node each holds.        *)

Node == 1..MaxNodes

\* The caller's variables a and b (unique_ptr<buffered_du> or unique_ptr<pdu>)
\* and r (unique_ptr<const base_du>), the local pdu of request and
\* test_service::last.
Handles == {"a", "b", "r", "pdu", "last"}

EmptyHeap == [obj |-> << >>, held |-> [h \in Handles |-> 0]]

\* The nodes reached from n along ptr.
RECURSIVE Reach(_, _, _)
Reach(H, n, seen) ==
    IF n = 0 \/ n \in seen THEN seen ELSE Reach(H, H.obj[n].ptr, seen \cup {n})

\* The nodes of the chain of n in order, and the chain as a value.
RECURSIVE ChainIds(_, _, _)
ChainIds(H, n, seen) ==
    IF n = 0 \/ n \in seen THEN << >>
    ELSE <<n>> \o ChainIds(H, H.obj[n].ptr, seen \cup {n})

ChainSeq(H, n) ==
    LET ids == ChainIds(H, n, {}) IN [k \in 1..Len(ids) |-> H.obj[ids[k]].du]

\* ~unique_ptr on node n: delete n, whose destructor destroys its ptr.
du_destroy(H, n) ==
    LET gone == Reach(H, n, {})
    IN  [H EXCEPT !.obj = [m \in (DOMAIN H.obj) \ gone |-> H.obj[m]]]

\* h = std::make_unique<...>(...): a new node with data unit d; what h held
\* is destroyed by the assignment.
make_unique(H, h, d) ==
    LET n   == CHOOSE m \in Node : m \notin DOMAIN H.obj
                                  /\ \A k \in Node : k < m => k \in DOMAIN H.obj
        old == H.held[h]
        H1  == [obj  |-> [m \in (DOMAIN H.obj) \cup {n} |->
                            IF m = n THEN [du |-> d, ptr |-> 0] ELSE H.obj[m]],
                held |-> [H.held EXCEPT ![h] = n]]
    IN  du_destroy(H1, old)

\* An append that refuses a node that has a successor: the chain handed in
\* is destroyed with the argument.
du_append_guarded(H, x, h) ==
    IF H.obj[x].ptr # 0
    THEN du_destroy([H EXCEPT !.held[h] = 0], H.held[h])
    ELSE [H EXCEPT !.held[h] = 0, !.obj[x].ptr = H.held[h]]

\* x.append(std::move(h)): the argument takes what h held, ptr.swap(du), and
\* the argument is destroyed with the former successor of x.
du_append(H, x, h) ==
    LET du  == H.held[h]
        old == H.obj[x].ptr
        H1  == [H EXCEPT !.held[h] = 0, !.obj[x].ptr = du]
    IN  du_destroy(H1, old)

\* A pop that detaches the next node alone and keeps the rest on x.
du_pop_one(H, x, r) ==
    LET ret  == H.obj[x].ptr
        rest == IF ret = 0 THEN 0 ELSE H.obj[ret].ptr
        old  == H.held[r]
        H1   == [H EXCEPT !.obj[x].ptr = rest, !.held[r] = ret]
        H2   == IF ret = 0 THEN H1 ELSE [H1 EXCEPT !.obj[ret].ptr = 0]
    IN  du_destroy(H2, old)

\* r = x.pop(): std::move(ptr) leaves ptr null; what r held is destroyed.
du_pop(H, x, r) ==
    LET ret == H.obj[x].ptr
        old == H.held[r]
        H1  == [H EXCEPT !.obj[x].ptr = 0, !.held[r] = ret]
    IN  du_destroy(H1, old)

\* h.reset(), or h going out of scope.
du_reset(H, h) == du_destroy([H EXCEPT !.held[h] = 0], H.held[h])

\* base_du::totalSize and base_du::length on node n.
RECURSIVE du_totalSize(_, _)
du_totalSize(H, n) ==
    IF H.obj[n].ptr # 0 THEN size(H.obj[n].du) + du_totalSize(H, H.obj[n].ptr)
    ELSE size(H.obj[n].du)

RECURSIVE du_length(_, _)
du_length(H, n) ==
    IF H.obj[n].ptr # 0 THEN du_length(H, H.obj[n].ptr) + 1 ELSE 1

-----------------------------------------------------------------------------
(* ccsds/spp.h and spp_service.cpp: constants.                             *)

TELEMETRY == 0
TELECOMMAND == 1

PACKET_VERSION_1 == 0
PACKET_VERSION_SHIFT == 13
PACKET_TYPE_MASK == 1
PACKET_TYPE_SHIFT == 12
PACKET_SEC_HDR_SHIFT == 11
PACKET_APID_MASK == 2047

SEQUENCE_UNSEGMENTED == 3
SEQUENCE_FLAGS_SHIFT == 14
SEQUENCE_COUNT_MASK == 16383

\* The octet_service instances of the model.
Inst == {1, 2}

\* packet_service(subnetwork): callback(nullptr), last_count(-1).
packet_service(subnetwork) ==
    [subnetwork |-> subnetwork, callback |-> "nullptr", last_count |-> -1]

\* octet_service(id, subnetwork): service(subnetwork), callback(nullptr),
\* id(id), packet_count(0), last_count(-1).
octet_service(id, subnetwork) ==
    [service |-> packet_service(subnetwork), callback |-> "nullptr", id |-> id,
     packet_count |-> 0, last_count |-> -1]

-----------------------------------------------------------------------------
(* octet_service::assembly, both overloads.                                *)

BoolToInt(b) == IF b THEN 1 ELSE 0

\* The identification field with the APID put in unmasked.
identification_unmasked(id, secondary, type) ==
    htons(BitOr(BitOr(BitOr(Shl(PACKET_VERSION_1, PACKET_VERSION_SHIFT),
                            Shl(BitAnd(type, PACKET_TYPE_MASK), PACKET_TYPE_SHIFT)),
                      Shl(BoolToInt(secondary), PACKET_SEC_HDR_SHIFT)),
                id))

identification(id, secondary, type) ==
    htons(BitOr(BitOr(BitOr(Shl(PACKET_VERSION_1, PACKET_VERSION_SHIFT),
                            Shl(BitAnd(type, PACKET_TYPE_MASK), PACKET_TYPE_SHIFT)),
                      Shl(BoolToInt(secondary), PACKET_SEC_HDR_SHIFT)),
                BitAnd(id, PACKET_APID_MASK)))

sequence_control(count) ==
    htons(BitOr(Shl(SEQUENCE_UNSEGMENTED, SEQUENCE_FLAGS_SHIFT),
                BitAnd(count, SEQUENCE_COUNT_MASK)))

\* data_length without the "- 1" of the standard.
data_length_full(sdu) == htons(totalSize(sdu))

\* A data length that saturates: 0 for the empty payload, 0xFFFF above 65536.
data_length_clamped(sdu) ==
    htons(IF totalSize(sdu) = 0 THEN 0
          ELSE IF totalSize(sdu) > U16 THEN U16 - 1
          ELSE totalSize(sdu) - 1)

data_length(sdu) == htons(totalSize(sdu) - 1)

\* An increment that wraps one short of the uint16_t range.
PostIncrementShort(packet_count) == (packet_count + 1) % (U16 - 1)

\* packet_count++ on a uint16_t.
PostIncrement(packet_count) == ToU16(packet_count + 1)

\* An assembly that gathers the payload into one buffer of its own.
octet_service_assembly_copying(o, sdu, secondary, type) ==
    [pdu |-> append(<<pdu_node(identification(o.id, secondary, type),
                               sequence_control(o.packet_count),
                               data_length(sdu))>>,
                    <<buffered_du("copy", totalSize(sdu))>>),
     self |-> [o EXCEPT !.packet_count = PostIncrement(o.packet_count)]]

\* assembly(sdu, secondary, type): the packet and the service after the call.
octet_service_assembly(o, sdu, secondary, type) ==
    [pdu |-> append(<<pdu_node(identification(o.id, secondary, type),
                               sequence_control(o.packet_count),
                               data_length(sdu))>>, sdu),
     self |-> [o EXCEPT !.packet_count = PostIncrement(o.packet_count)]]

\* The name overload written as a copy of the counter overload, packet_count++ kept.
octet_service_assembly_name_counting(o, sdu, secondary, name) ==
    [pdu |-> append(<<pdu_node(identification(o.id, secondary, TELECOMMAND),
                               sequence_control(name),
                               data_length(sdu))>>, sdu),
     self |-> [o EXCEPT !.packet_count = PostIncrement(o.packet_count)]]

\* assembly(sdu, secondary, name): the type is TELECOMMAND, packet_count is not used.
octet_service_assembly_name(o, sdu, secondary, name) ==
    [pdu |-> append(<<pdu_node(identification(o.id, secondary, TELECOMMAND),
                               sequence_control(name),
                               data_length(sdu))>>, sdu),
     self |-> o]

-----------------------------------------------------------------------------
(* Reception.  A world w holds the objects a call can reach: the octet     *)
(* services, the stand-alone packet service and test_service::last.  An    *)
(* effect is the world after the call with what the call did: the error    *)
(* it returned, the chains handed to a subnetwork and the indications.     *)

Indication(by, inst, du, id, loss) ==
    [by |-> by, inst |-> inst, du |-> du, id |-> id, loss |-> loss]

\* The loss check without the mask on last_count + 1.
PacketLossUnmasked(count, last_count) == ~(count = last_count + 1)

\* The loss check both receptions make on the count they read.
PacketLoss(count, last_count) ==
    ~(count = BitAnd(last_count + 1, SEQUENCE_COUNT_MASK))

\* A packet service reception with the APID filter of the octet service, for
\* APID 0x1AB.
packet_service_reception_filtering(w, pdu) ==
    LET header == pdu[1]
        count  == ToU16(BitAnd(header.sequence_control, SEQUENCE_COUNT_MASK))
        loss   == ~(count = BitAnd(w.pkt.last_count + 1, SEQUENCE_COUNT_MASK))
        id     == BitAnd(header.identification, PACKET_APID_MASK)
    IN  IF id = 427
        THEN [w   |-> [w EXCEPT !.pkt.last_count = count],
              ind |-> IF w.pkt.callback # "nullptr"
                      THEN <<Indication("packet_service", 0, pdu, id, loss)>>
                      ELSE << >>]
        ELSE [w |-> w, ind |-> << >>]

\* packet_service::reception(pdu): the fields are read as the struct holds them.
packet_service_reception(w, pdu) ==
    LET header == pdu[1]
        count  == ToU16(BitAnd(header.sequence_control, SEQUENCE_COUNT_MASK))
        loss   == PacketLoss(count, w.pkt.last_count)
        id     == BitAnd(header.identification, PACKET_APID_MASK)
    IN  [w   |-> [w EXCEPT !.pkt.last_count = count],
         ind |-> IF w.pkt.callback # "nullptr"
                 THEN <<Indication("packet_service", 0, pdu, id, loss)>>
                 ELSE << >>]

\* The APID octet_service::reception reads from the header.
ReceivedApid(header) == BitAnd(ntohs(header.identification), PACKET_APID_MASK)

\* The count octet_service::reception reads from the header.
ReceivedCount(header) ==
    ToU16(BitAnd(ntohs(header.sequence_control), SEQUENCE_COUNT_MASK))

\* A reception that records the count only when no loss is seen.
octet_service_reception_keep(w, i, pdu) ==
    LET header == pdu[1]
        o      == w.oct[i]
        pdu_id == ReceivedApid(header)
    IN  IF pdu_id = o.id
        THEN LET count == ReceivedCount(header)
                 loss  == PacketLoss(count, o.last_count)
             IN  [w   |-> IF loss THEN w ELSE [w EXCEPT !.oct[i].last_count = count],
                  ind |-> IF o.callback # "nullptr"
                          THEN <<Indication("octet_service", i, pop(pdu).ret, o.id, loss)>>
                          ELSE << >>]
        ELSE [w |-> w, ind |-> << >>]

\* A reception without the APID filter.
octet_service_reception_unfiltered(w, i, pdu) ==
    LET header == pdu[1]
        o      == w.oct[i]
        count  == ReceivedCount(header)
        loss   == PacketLoss(count, o.last_count)
    IN  [w   |-> [w EXCEPT !.oct[i].last_count = count],
         ind |-> IF o.callback # "nullptr"
                 THEN <<Indication("octet_service", i, pop(pdu).ret, o.id, loss)>>
                 ELSE << >>]

\* A reception that keeps its count in the internal packet service.
octet_service_reception_shared(w, i, pdu) ==
    LET header == pdu[1]
        o      == w.oct[i]
        pdu_id == ReceivedApid(header)
    IN  IF pdu_id = o.id
        THEN LET count == ReceivedCount(header)
                 loss  == PacketLoss(count, o.service.last_count)
             IN  [w   |-> [w EXCEPT !.oct[i].service.last_count = count,
                                    !.oct[i].last_count = count],
                  ind |-> IF o.callback # "nullptr"
                          THEN <<Indication("octet_service", i, pop(pdu).ret, o.id, loss)>>
                          ELSE << >>]
        ELSE [w |-> w, ind |-> << >>]

\* A reception that records the count of every packet and filters after.
octet_service_reception_tracking(w, i, pdu) ==
    LET header == pdu[1]
        o      == w.oct[i]
        pdu_id == ReceivedApid(header)
        count  == ReceivedCount(header)
        loss   == PacketLoss(count, o.last_count)
    IN  [w   |-> [w EXCEPT !.oct[i].last_count = count],
         ind |-> IF pdu_id = o.id /\ o.callback # "nullptr"
                 THEN <<Indication("octet_service", i, pop(pdu).ret, o.id, loss)>>
                 ELSE << >>]

\* A reception that compares the header APID with the low 11 bits of id.
octet_service_reception_masked(w, i, pdu) ==
    LET header == pdu[1]
        o      == w.oct[i]
        pdu_id == ReceivedApid(header)
    IN  IF pdu_id = BitAnd(o.id, PACKET_APID_MASK)
        THEN LET count == ReceivedCount(header)
                 loss  == PacketLoss(count, o.last_count)
             IN  [w   |-> [w EXCEPT !.oct[i].last_count = count],
                  ind |-> IF o.callback # "nullptr"
                          THEN <<Indication("octet_service", i, pop(pdu).ret, o.id, loss)>>
                          ELSE << >>]
        ELSE [w |-> w, ind |-> << >>]

\* A reception that counts the packets itself: last_count becomes the count
\* it expected, not the one it read.
octet_service_reception_counting(w, i, pdu) ==
    LET header == pdu[1]
        o      == w.oct[i]
        pdu_id == ReceivedApid(header)
    IN  IF pdu_id = o.id
        THEN LET count == ReceivedCount(header)
                 loss  == PacketLoss(count, o.last_count)
             IN  [w   |-> [w EXCEPT !.oct[i].last_count =
                                       BitAnd(o.last_count + 1, SEQUENCE_COUNT_MASK)],
                  ind |-> IF o.callback # "nullptr"
                          THEN <<Indication("octet_service", i, pop(pdu).ret, o.id, loss)>>
                          ELSE << >>]
        ELSE [w |-> w, ind |-> << >>]

\* A reception that makes the loss check only when an indication is registered.
octet_service_reception_lazy(w, i, pdu) ==
    LET header == pdu[1]
        o      == w.oct[i]
        pdu_id == ReceivedApid(header)
    IN  IF pdu_id = o.id /\ o.callback # "nullptr"
        THEN LET count == ReceivedCount(header)
                 loss  == PacketLoss(count, o.last_count)
             IN  [w   |-> [w EXCEPT !.oct[i].last_count = count],
                  ind |-> <<Indication("octet_service", i, pop(pdu).ret, o.id, loss)>>]
        ELSE [w |-> w, ind |-> << >>]

\* A reception that makes no indication for a packet without payload.
octet_service_reception_skipping(w, i, pdu) ==
    LET header == pdu[1]
        o      == w.oct[i]
        pdu_id == ReceivedApid(header)
    IN  IF pdu_id = o.id
        THEN LET count == ReceivedCount(header)
                 loss  == PacketLoss(count, o.last_count)
             IN  [w   |-> [w EXCEPT !.oct[i].last_count = count],
                  ind |-> IF o.callback # "nullptr" /\ pop(pdu).ret # NullDU
                          THEN <<Indication("octet_service", i, pop(pdu).ret, o.id, loss)>>
                          ELSE << >>]
        ELSE [w |-> w, ind |-> << >>]

\* octet_service::reception(pdu) on instance i.
octet_service_reception(w, i, pdu) ==
    LET header == pdu[1]
        o      == w.oct[i]
        pdu_id == ReceivedApid(header)
    IN  IF pdu_id = o.id
        THEN LET count == ReceivedCount(header)
                 loss  == PacketLoss(count, o.last_count)
             IN  [w   |-> [w EXCEPT !.oct[i].last_count = count],
                  ind |-> IF o.callback # "nullptr"
                          THEN <<Indication("octet_service", i, pop(pdu).ret, o.id, loss)>>
                          ELSE << >>]
        ELSE [w |-> w, ind |-> << >>]

-----------------------------------------------------------------------------
(* The send path.                                                          *)

Effect(w, ret, xfer, ind) == [w |-> w, ret |-> ret, xfer |-> xfer, ind |-> ind]

\* test_service::transfer(sdu): last.swap(sdu); return error().
test_service_transfer(w, sdu) ==
    Effect([w EXCEPT !.last = sdu], NONE, <<sdu>>, << >>)

\* A loopback that queues the chain for a later delivery and returns at once.
loopback_service_transfer_deferred(w, sdu) == Effect(w, NONE, <<sdu>>, << >>)

\* loopback_service::transfer(sdu): service->reception(pdu); return error().
loopback_service_transfer(w, sdu) ==
    LET r == octet_service_reception(w, loopback.service, sdu)
    IN  Effect(r.w, NONE, <<sdu>>, r.ind)

\* A subnetwork that takes the chain and answers with the error it is set to:
\* base_service::transfer is pure virtual, "NONE if successful, other if failure".
error_service_transfer(w, sdu) == Effect(w, stub.answer, <<sdu>>, << >>)

\* subnetwork->transfer(sdu), a virtual call.
subnetwork_transfer(w, subnetwork, sdu) ==
    IF subnetwork = "test_service" THEN test_service_transfer(w, sdu)
    ELSE IF subnetwork = "error_service" THEN error_service_transfer(w, sdu)
    ELSE loopback_service_transfer(w, sdu)

\* A transfer that drops the chain without an error when there is no subnetwork.
packet_service_transfer_silent(w, p, sdu) ==
    IF p.subnetwork # "nullptr"
    THEN subnetwork_transfer(w, p.subnetwork, sdu)
    ELSE Effect(w, NONE, << >>, << >>)

\* A transfer that reports success whatever the subnetwork answered.
packet_service_transfer_masking(w, p, sdu) ==
    IF p.subnetwork # "nullptr"
    THEN [subnetwork_transfer(w, p.subnetwork, sdu) EXCEPT !.ret = NONE]
    ELSE Effect(w, NO_NETWORK, << >>, << >>)

\* packet_service::transfer(sdu) on the packet service p.
packet_service_transfer(w, p, sdu) ==
    IF p.subnetwork # "nullptr"
    THEN subnetwork_transfer(w, p.subnetwork, sdu)
    ELSE Effect(w, NO_NETWORK, << >>, << >>)

\* A request that serves only the default quality of service.
packet_service_request_qos(w, p, pdu, qos) ==
    IF qos = 0 THEN packet_service_transfer(w, p, pdu)
    ELSE Effect(w, NO_SUPPORT, << >>, << >>)

\* packet_service::request(pdu, qos).
packet_service_request(w, p, pdu, qos) == packet_service_transfer(w, p, pdu)

\* A request on a service whose packet_count is one static shared by all
\* instances.
octet_service_request_static(w, i, sdu, secondary, type) ==
    LET a  == octet_service_assembly(w.oct[i], sdu, secondary, type)
        w1 == [w EXCEPT !.oct = [j \in Inst |->
                   [w.oct[j] EXCEPT !.packet_count = a.self.packet_count]]]
    IN  packet_service_transfer(w1, w1.oct[i].service, a.pdu)

\* A request that takes the sequence value back when the send fails.
octet_service_request_rollback(w, i, sdu, secondary, type) ==
    LET a  == octet_service_assembly(w.oct[i], sdu, secondary, type)
        w1 == [w EXCEPT !.oct[i] = a.self]
        e  == packet_service_transfer(w1, w1.oct[i].service, a.pdu)
    IN  IF e.ret = NONE THEN e
        ELSE [e EXCEPT !.w.oct[i].packet_count = w.oct[i].packet_count]

\* octet_service::request(sdu, secondary, type) on instance i.
octet_service_request(w, i, sdu, secondary, type) ==
    LET a  == octet_service_assembly(w.oct[i], sdu, secondary, type)
        w1 == [w EXCEPT !.oct[i] = a.self]
    IN  packet_service_transfer(w1, w1.oct[i].service, a.pdu)

\* octet_service::request(sdu, secondary, name) on instance i.
octet_service_request_name(w, i, sdu, secondary, name) ==
    LET a  == octet_service_assembly_name(w.oct[i], sdu, secondary, name)
        w1 == [w EXCEPT !.oct[i] = a.self]
    IN  packet_service_transfer(w1, w1.oct[i].service, a.pdu)

\* A transfer that hands the chain on to the packet service.
octet_service_transfer_forwarding(w, i, sdu) ==
    packet_service_transfer(w, w.oct[i].service, sdu)

\* octet_service::transfer(sdu).
octet_service_transfer(w, i, sdu) == Effect(w, NO_SUPPORT, << >>, << >>)

-----------------------------------------------------------------------------
(* What an observer of the wire reads from a header node: the octets in    *)
(* memory order taken as big-endian fields (spec section 6).               *)

WireField(node, k) == 256 * HeaderBytes(node)[2 * k - 1] + HeaderBytes(node)[2 * k]

WireVersion(node) == WireField(node, 1) \div 8192
WireType(node) == (WireField(node, 1) \div 4096) % 2
WireSecHdr(node) == (WireField(node, 1) \div 2048) % 2
WireApid(node) == WireField(node, 1) % 2048
WireSeqFlags(node) == WireField(node, 2) \div 16384
WireSeq(node) == WireField(node, 2) % 16384
WireLength(node) == WireField(node, 3)

-----------------------------------------------------------------------------
(* Inputs of the calls.                                                    *)

\* APIDs an octet service is constructed with: 0x1AB and 0x9AB.
ServiceIds == {427, 2475}
\* The APID of the second octet service: 0x2CD.
OtherIds == {717}

\* Payload chains handed to request: buffers of the caller.
Payloads ==
    { <<buffered_du("data", 10)>>, <<buffered_du("data", 1)>>,
      <<buffered_du("data", 0)>>, <<buffered_du("data", 65536)>>,
      <<buffered_du("data", 65537)>>,
      <<buffered_du("data", 10), buffered_du("more", 3)>>,
      <<buffered_du("data", 10), buffered_du("more", 3), buffered_du("tail", 1)>> }

PacketTypes == {TELEMETRY, TELECOMMAND}

\* Packet names: 0x1A5A and 0x4001.
Names == {6746, 16385}

\* The payload of the unit test: ten octets.
TestPayload == <<buffered_du("data", 10)>>

\* Arguments of the counter-based request: every flag and type with the test
\* payload, and every payload as an unflagged telecommand.
RequestArgs ==
    { [sdu |-> TestPayload, secondary |-> s, type |-> t] :
          s \in BOOLEAN, t \in PacketTypes }
    \cup { [sdu |-> p, secondary |-> FALSE, type |-> TELECOMMAND] : p \in Payloads }

\* Arguments of the name-based request.
RequestNameArgs ==
    { [sdu |-> TestPayload, secondary |-> s, name |-> n] : s \in BOOLEAN, n \in Names }
    \cup { [sdu |-> p, secondary |-> FALSE, name |-> 6746] : p \in Payloads }

\* A packet as a peer puts it on the wire (order = "wire") or as a caller
\* builds it with the fields in host order (order = "host").
PeerPacket(apid, seq, payload, order) ==
    LET ident == Shl(TELEMETRY, PACKET_TYPE_SHIFT) + apid
        ctrl  == Shl(SEQUENCE_UNSEGMENTED, SEQUENCE_FLAGS_SHIFT) + seq
        len   == IF payload = NullDU THEN 0 ELSE ToU16(totalSize(payload) - 1)
    IN  IF order = "wire"
        THEN <<pdu_node(htons(ident), htons(ctrl), htons(len))>> \o payload
        ELSE <<pdu_node(ident, ctrl, len)>> \o payload

RxApids == {427, 717}
RxSeqs == {0, 1, 16383}

\* Packets the subnetwork delivers to an octet service; one has no payload.
WirePackets ==
    { PeerPacket(a, q, TestPayload, "wire") : a \in RxApids, q \in RxSeqs }
    \cup { PeerPacket(427, 0, NullDU, "wire") }

\* Packets handed to the stand-alone packet service.
AnyPackets ==
    WirePackets \cup
    { PeerPacket(a, q, TestPayload, "host") : a \in RxApids, q \in RxSeqs }

\* Packets sent through the stand-alone packet service or handed to
\* octet_service::transfer.
SentPackets == { PeerPacket(427, q, TestPayload, "wire") : q \in {0, 1} }

Callbacks == {"nullptr", "test_indication"}

Subnetworks == {"nullptr", "test_service", "loopback_service", "error_service"}

\* Subnetworks that never call reception: the dead ends.
DeadEnds == {"test_service", "error_service"}

-----------------------------------------------------------------------------
(* Observation.                                                            *)

World == [oct |-> oct, pkt |-> pkt, last |-> last]

\* on, from, ids and succ are for the calls on data units: the variable holding
\* the node called on, the variable moved from (for a pop: the variable the
\* append just before it moved from, if that append was made on the same node
\* while it had no successor), the nodes of the chain passed or returned, and
\* the successor the node had before the call.
NoArg == [du |-> NullDU, secondary |-> FALSE, type |-> 0, name |-> 0, qos |-> 0,
          func |-> "nullptr", on |-> "none", from |-> "none", ids |-> << >>,
          succ |-> 0]

\* What the acting service (inst, 0 for the packet service) and the receiving
\* octet service rx (0 when there is none) had seen before the call.
Before(inst, rx) ==
    [count   |-> IF inst = 0 THEN 0 ELSE hist.count[inst],
     named   |-> IF inst = 0 THEN FALSE ELSE hist.named[inst],
     rx      |-> rx,
     ext     |-> IF rx = 0 THEN FALSE ELSE hist.ext[rx],
     lastSeq |-> IF rx = 0 THEN hist.pktSeq ELSE hist.lastSeq[rx]]

Observe(op, inst, arg, e, rx) ==
    [op |-> op, inst |-> inst, arg |-> arg, ret |-> e.ret, xfer |-> e.xfer,
     ind |-> e.ind, before |-> Before(inst, rx)]

\* The octet service a chain sent by p reaches through the loopback, 0 if none.
Reached(p, e) ==
    IF p.subnetwork = "loopback_service" /\ e.xfer # << >> THEN loopback.service ELSE 0

\* hist after a counter-based request on octet service i with effect e: sent
\* is the count of the last packet sent with success (-1: none so far), failed
\* the number of requests that returned an error since.
Requested(h, i, e) ==
    LET success == e.ret = NONE /\ e.xfer # << >>
    IN  [h EXCEPT !.focus = "octet", !.count[i] = @ + 1,
                  !.sent[i] = IF success THEN WireSeq(e.xfer[1][1]) ELSE @,
                  !.failed[i] = IF success THEN 0 ELSE @ + 1]

\* hist after octet service rx (0: none) was handed the packet pdu; own tells
\* whether the packet came from a counter-based request of rx itself.
Seen(h, rx, pdu, own) ==
    IF rx = 0 THEN h
    ELSE [h EXCEPT !.ext[rx] = @ \/ ~own,
                   !.lastSeq[rx] = IF WireApid(pdu[1]) = oct[rx].id
                                   THEN WireSeq(pdu[1]) ELSE @]

Commit(e) == /\ oct' = e.w.oct
             /\ pkt' = e.w.pkt
             /\ last' = e.w.last

-----------------------------------------------------------------------------
(* The state after construction.  All services are built on one            *)
(* subnetwork; the loopback delivers to octet service 1.                   *)

InitHist ==
    [focus |-> "none", count |-> [i \in Inst |-> 0], named |-> [i \in Inst |-> FALSE],
     ext |-> [i \in Inst |-> FALSE], lastSeq |-> [i \in Inst |-> -1], pktSeq |-> -1,
     sent |-> [i \in Inst |-> -1], failed |-> [i \in Inst |-> 0]]

InitOut ==
    [op |-> "init", inst |-> 0, arg |-> NoArg, ret |-> "void", xfer |-> << >>,
     ind |-> << >>,
     before |-> [count |-> 0, named |-> FALSE, rx |-> 0, ext |-> FALSE,
                 lastSeq |-> -1]]

\* The services built on one subnetwork, octet service i with APID ids[i].
ConstructedWith(h, ids, subnetwork) ==
    /\ host = h
    /\ oct = [i \in Inst |-> octet_service(ids[i], subnetwork)]
    /\ pkt = packet_service(subnetwork)
    /\ last = NullDU
    /\ loopback = [service |-> 1]
    /\ stub \in {[answer |-> e] : e \in IF subnetwork = "error_service"
                                         THEN ErrorCodes ELSE {NONE}}
    /\ heap = EmptyHeap
    /\ out = InitOut
    /\ hist = InitHist

Constructed(h, id, subnetwork) ==
    ConstructedWith(h, [i \in Inst |-> IF i = 1 THEN id
                                       ELSE CHOOSE a \in OtherIds : TRUE],
                    subnetwork)

Init ==
    \E h \in {"little", "big"}, id \in ServiceIds, subnetwork \in Subnetworks :
        Constructed(h, id, subnetwork)

-----------------------------------------------------------------------------
(* The calls.  A behaviour drives either the octet services or the         *)
(* stand-alone packet service: the two share no state.  The dead-end       *)
(* subnetworks deliver nothing, so nothing is received on them.            *)

Focus(f) == hist.focus \in {"none", f}

OctetRequest(i, bound, args) ==
    /\ Focus("octet")
    /\ hist.count[i] < bound
    /\ \E a \in args :
          \E e \in {octet_service_request(World, i, a.sdu, a.secondary, a.type)} :
          LET rx == Reached(oct[i].service, e)
              h  == Requested(hist, i, e)
          IN  /\ Commit(e)
              /\ out' = Observe("octet.request", i,
                                [NoArg EXCEPT !.du = a.sdu, !.secondary = a.secondary,
                                              !.type = a.type], e, rx)
              /\ hist' = IF rx = 0 THEN h ELSE Seen(h, rx, e.xfer[1], rx = i)
    /\ UNCHANGED <<host, loopback, stub, heap>>

OctetRequestName(i) ==
    /\ Focus("octet")
    /\ \E a \in RequestNameArgs :
          \E e \in {octet_service_request_name(World, i, a.sdu, a.secondary, a.name)} :
          LET rx == Reached(oct[i].service, e)
              h  == [hist EXCEPT !.focus = "octet", !.named[i] = TRUE]
          IN  /\ Commit(e)
              /\ out' = Observe("octet.request_name", i,
                                [NoArg EXCEPT !.du = a.sdu, !.secondary = a.secondary,
                                              !.name = a.name], e, rx)
              /\ hist' = IF rx = 0 THEN h ELSE Seen(h, rx, e.xfer[1], FALSE)
    /\ UNCHANGED <<host, loopback, stub, heap>>

OctetTransfer(i) ==
    /\ Focus("octet")
    /\ \E sdu \in SentPackets :
          \E e \in {octet_service_transfer(World, i, sdu)} :
              /\ Commit(e)
              /\ out' = Observe("octet.transfer", i, [NoArg EXCEPT !.du = sdu], e, 0)
    /\ hist' = [hist EXCEPT !.focus = "octet"]
    /\ UNCHANGED <<host, loopback, stub, heap>>

\* octet_service::set_indication(func).
OctetSetIndication(i) ==
    /\ Focus("octet")
    /\ \E func \in Callbacks :
          /\ oct' = [oct EXCEPT ![i].callback = func]
          /\ out' = Observe("octet.set_indication", i, [NoArg EXCEPT !.func = func],
                            Effect(World, "void", << >>, << >>), 0)
    /\ hist' = [hist EXCEPT !.focus = "octet"]
    /\ UNCHANGED <<host, pkt, last, loopback, stub, heap>>

OctetReception(i) ==
    /\ Focus("octet")
    /\ oct[i].service.subnetwork \notin DeadEnds
    /\ \E pdu \in WirePackets :
          \E r \in {octet_service_reception(World, i, pdu)} :
          LET e == Effect(r.w, "void", << >>, r.ind)
          IN  /\ Commit(e)
              /\ out' = Observe("octet.reception", i, [NoArg EXCEPT !.du = pdu], e, i)
              /\ hist' = Seen([hist EXCEPT !.focus = "octet"], i, pdu, FALSE)
    /\ UNCHANGED <<host, loopback, stub, heap>>

PacketTransfer ==
    /\ Focus("packet")
    /\ \E sdu \in SentPackets :
          \E e \in {packet_service_transfer(World, pkt, sdu)} :
          LET rx == Reached(pkt, e)
          IN  /\ Commit(e)
              /\ out' = Observe("packet.transfer", 0, [NoArg EXCEPT !.du = sdu], e, rx)
              /\ hist' = Seen([hist EXCEPT !.focus = "packet"], rx, sdu, FALSE)
    /\ UNCHANGED <<host, loopback, stub, heap>>

Qos == {0, 1}

PacketRequest ==
    /\ Focus("packet")
    /\ \E pdu \in SentPackets, qos \in Qos :
          \E e \in {packet_service_request(World, pkt, pdu, qos)} :
          LET rx == Reached(pkt, e)
          IN  /\ Commit(e)
              /\ out' = Observe("packet.request", 0,
                                [NoArg EXCEPT !.du = pdu, !.qos = qos], e, rx)
              /\ hist' = Seen([hist EXCEPT !.focus = "packet"], rx, pdu, FALSE)
    /\ UNCHANGED <<host, loopback, stub, heap>>

\* packet_service::set_indication(func).
PacketSetIndication ==
    /\ Focus("packet")
    /\ \E func \in Callbacks :
          /\ pkt' = [pkt EXCEPT !.callback = func]
          /\ out' = Observe("packet.set_indication", 0, [NoArg EXCEPT !.func = func],
                            Effect(World, "void", << >>, << >>), 0)
    /\ hist' = [hist EXCEPT !.focus = "packet"]
    /\ UNCHANGED <<host, oct, last, loopback, stub, heap>>

PacketReception ==
    /\ Focus("packet")
    /\ pkt.subnetwork \notin DeadEnds
    /\ \E pdu \in AnyPackets :
          \E r \in {packet_service_reception(World, pdu)} :
          LET e == Effect(r.w, "void", << >>, r.ind)
          IN  /\ Commit(e)
              /\ out' = Observe("packet.reception", 0, [NoArg EXCEPT !.du = pdu], e, 0)
              /\ hist' = [hist EXCEPT !.focus = "packet",
                                      !.pktSeq = pdu[1].sequence_control % 16384]
    /\ UNCHANGED <<host, loopback, stub, heap>>

\* The octet service the calls of Spec are made on.
Active == {1}

Next ==
    \/ \E i \in Active : OctetRequest(i, MaxCount, RequestArgs)
    \/ \E i \in Active : OctetRequestName(i)
    \/ \E i \in Active : OctetTransfer(i)
    \/ \E i \in Active : OctetSetIndication(i)
    \/ \E i \in Active : OctetReception(i)
    \/ PacketTransfer
    \/ PacketRequest
    \/ PacketSetIndication
    \/ PacketReception

Spec == Init /\ [][Next]_vars

-----------------------------------------------------------------------------
(* A long run of counter-based requests on a fresh octet service over the  *)
(* dead-end subnetwork, past the wrap of the 16-bit packet_count.          *)

WrapArgs == { [sdu |-> TestPayload, secondary |-> FALSE, type |-> TELECOMMAND] }

InitWrap == \E h \in {"little", "big"} : Constructed(h, 427, "test_service")

NextWrap == OctetRequest(1, MaxWrap, WrapArgs)

SpecWrap == InitWrap /\ [][NextWrap]_vars

-----------------------------------------------------------------------------
(* Two octet services, with equal or different APIDs, on one subnetwork;   *)
(* requests and receptions are made on both.                               *)

InitTwo ==
    \E id \in {427} \cup OtherIds, subnetwork \in {"test_service", "loopback_service"} :
        ConstructedWith("little", [i \in Inst |-> IF i = 1 THEN 427 ELSE id],
                        subnetwork)

NextTwo ==
    \/ \E i \in Inst : OctetRequest(i, MaxCount, WrapArgs)
    \/ \E i \in Inst : OctetReception(i)

SpecTwo == InitTwo /\ [][NextTwo]_vars

-----------------------------------------------------------------------------
(* Counter-based requests on a subnetwork whose transfer succeeds at one   *)
(* call and fails at another, and on a service without subnetwork.         *)

MaxTries == 4

\* The subnetwork's next transfer will answer e.
ErrorServiceAnswer ==
    /\ oct[1].service.subnetwork = "error_service"
    /\ \E e \in ErrorCodes \ {stub.answer} :
          /\ stub' = [answer |-> e]
          /\ out' = Observe("subnetwork.answer", 0, NoArg,
                            Effect(World, "void", << >>, << >>), 0)
    /\ UNCHANGED <<host, oct, pkt, last, loopback, heap, hist>>

InitRetry ==
    \E h \in {"little", "big"}, subnetwork \in {"error_service", "nullptr"} :
        Constructed(h, 427, subnetwork)

NextRetry ==
    \/ OctetRequest(1, MaxTries, WrapArgs)
    \/ ErrorServiceAnswer

SpecRetry == InitRetry /\ [][NextRetry]_vars

-----------------------------------------------------------------------------
(* One stream of packets for two receivers: octet service 1 assembles the  *)
(* packets and sends them into the dead-end subnetwork; the packet the     *)
(* subnetwork holds is handed to the reception of octet service 2, which   *)
(* has the same APID, and to the reception of the packet service.  A       *)
(* packet can be handed on once, again, or not at all.                     *)

\* set_indication(func) on both receivers.
BothSetIndication ==
    /\ \E func \in Callbacks :
          /\ oct' = [oct EXCEPT ![2].callback = func]
          /\ pkt' = [pkt EXCEPT !.callback = func]
          /\ out' = Observe("both.set_indication", 0, [NoArg EXCEPT !.func = func],
                            Effect(World, "void", << >>, << >>), 0)
    /\ UNCHANGED <<host, last, loopback, stub, heap, hist>>

\* reception(pdu) on octet service 2, then on the packet service, with the
\* packet the subnetwork holds.
BothReception ==
    /\ last # NullDU
    /\ \E r \in {octet_service_reception(World, 2, last)} :
          \E s \in {packet_service_reception(r.w, last)} :
          LET e == Effect(s.w, "void", << >>, r.ind \o s.ind)
          IN  /\ Commit(e)
              /\ out' = Observe("both.reception", 2, [NoArg EXCEPT !.du = last], e, 2)
    /\ UNCHANGED <<host, loopback, stub, heap, hist>>

InitBoth ==
    \E h \in {"little", "big"} :
        ConstructedWith(h, [i \in Inst |-> 427], "test_service")

NextBoth ==
    \/ OctetRequest(1, MaxTries, WrapArgs)
    \/ BothSetIndication
    \/ BothReception

SpecBoth == InitBoth /\ [][NextBoth]_vars

-----------------------------------------------------------------------------
(* A stream of counter-based and name-based requests of one octet service  *)
(* that receives its own packets through the loopback.                     *)

InitMix == \E h \in {"little", "big"} : Constructed(h, 427, "loopback_service")

NextMix ==
    \/ OctetRequest(1, MaxTries, WrapArgs)
    \/ OctetRequestName(1)
    \/ OctetSetIndication(1)

SpecMix == InitMix /\ [][NextMix]_vars

-----------------------------------------------------------------------------
(* The byte-order routines on their own: every uint16_t in turn is         *)
(* converted, converted back and swapped, on both hosts.                   *)

\* The results of the routines for x, and the field holding htons(x) in memory.
ByteOrderResults(x) ==
    [htons |-> htons(x), back |-> ntohs(htons(x)), swaps |-> swaps(x),
     twice |-> swaps(swaps(x)), bytes |-> FieldBytes(htons(x))]

ByteOrder ==
    /\ \E x \in {IF out.op = "init" THEN 0 ELSE out.arg.name + 1} :
          /\ x < U16
          /\ out' = [InitOut EXCEPT !.op = "byte_order", !.arg.name = x,
                                    !.ret = ByteOrderResults(x)]
    /\ UNCHANGED <<host, oct, pkt, last, loopback, stub, heap, hist>>

InitSwap == \E h \in {"little", "big"} : Constructed(h, 427, "test_service")

NextSwap == ByteOrder

SpecSwap == InitSwap /\ [][NextSwap]_vars

-----------------------------------------------------------------------------
(* A caller that allocates data units, links them with append and pop and  *)
(* moves them into the services.                                           *)

\* The variables a caller can call append and pop through, and the ones it
\* can move from.
Callers == {"a", "b"}
Movable == {"a", "b", "r"}

\* The data units a caller makes: in a, a buffer of its own or a packet
\* header; in b, another buffer.
CallerDUs(h) ==
    IF h = "a" THEN {buffered_du("data", 10), PeerPacket(427, 0, NullDU, "wire")[1]}
    ELSE {buffered_du("more", 3)}

HasFreeNode == \E m \in Node : m \notin DOMAIN heap.obj
HoldsPacket(h) == heap.held[h] # 0 /\ heap.obj[heap.held[h]].du.type = "pdu"

\* subnetwork->transfer(std::move(h)) up to the end of the call: test_service
\* swaps the chain into last and what last held goes with the argument; any
\* other receiver lets the chain go (the loopback hands it to reception, where
\* the indication or the end of the call destroys it), and so does a transfer
\* without subnetwork.
heap_transfer(H, subnetwork, h) ==
    IF subnetwork = "test_service"
    THEN du_destroy([H EXCEPT !.held["last"] = H.held[h], !.held[h] = 0],
                    H.held["last"])
    ELSE du_reset(H, h)

HeapObserve(op, arg) == Observe(op, 0, arg, Effect(World, "void", << >>, << >>), 0)

MakeUnique(h) ==
    /\ HasFreeNode
    /\ \E d \in CallerDUs(h) :
          /\ heap' = make_unique(heap, h, d)
          /\ out' = HeapObserve("make_unique", [NoArg EXCEPT !.on = h, !.du = <<d>>])
    /\ UNCHANGED <<host, oct, pkt, last, loopback, stub, hist>>

\* x->append(std::move(h)).
DuAppend(x, h) ==
    /\ heap.held[x] # 0
    /\ heap' = du_append(heap, heap.held[x], h)
    /\ out' = HeapObserve("du.append",
                          [NoArg EXCEPT !.on = x, !.from = h,
                                        !.du = ChainSeq(heap, heap.held[h]),
                                        !.ids = ChainIds(heap, heap.held[h], {}),
                                        !.succ = heap.obj[heap.held[x]].ptr])
    /\ UNCHANGED <<host, oct, pkt, last, loopback, stub, hist>>

\* r = x->pop().
DuPop(x) ==
    /\ heap.held[x] # 0
    /\ \E H \in {du_pop(heap, heap.held[x], "r")} :
          /\ heap' = H
          /\ out' = HeapObserve("du.pop",
                                [NoArg EXCEPT !.on = x,
                                              !.from = IF /\ out.op = "du.append"
                                                          /\ out.arg.on = x
                                                          /\ out.arg.succ = 0
                                                       THEN out.arg.from ELSE "none",
                                              !.du = ChainSeq(H, H.held["r"]),
                                              !.ids = ChainIds(H, H.held["r"], {}),
                                              !.succ = heap.obj[heap.held[x]].ptr])
    /\ UNCHANGED <<host, oct, pkt, last, loopback, stub, hist>>

\* h.reset().
DuReset(h) ==
    /\ heap.held[h] # 0
    /\ heap' = du_reset(heap, h)
    /\ out' = HeapObserve("du.reset", [NoArg EXCEPT !.on = h])
    /\ UNCHANGED <<host, oct, pkt, last, loopback, stub, hist>>

\* service.request(std::move(h), false, TELECOMMAND) on octet service 1.
HeapRequest(h) ==
    /\ Focus("octet")
    /\ hist.count[1] < MaxCount
    /\ heap.held[h] # 0
    /\ HasFreeNode
    /\ \E sdu \in {ChainSeq(heap, heap.held[h])} :
          \E e \in {octet_service_request(World, 1, sdu, FALSE, TELECOMMAND)} :
          LET rx == Reached(oct[1].service, e)
              hc == [hist EXCEPT !.focus = "octet", !.count[1] = @ + 1]
              H1 == make_unique(heap, "pdu",
                        octet_service_assembly(oct[1], sdu, FALSE, TELECOMMAND).pdu[1])
              H2 == du_append(H1, H1.held["pdu"], h)
          IN  /\ Commit(e)
              /\ out' = Observe("octet.request", 1,
                                [NoArg EXCEPT !.du = sdu, !.type = TELECOMMAND,
                                              !.from = h], e, rx)
              /\ hist' = IF rx = 0 THEN hc ELSE Seen(hc, rx, e.xfer[1], rx = 1)
              /\ heap' = heap_transfer(H2, oct[1].service.subnetwork, "pdu")
    /\ UNCHANGED <<host, loopback, stub>>

\* transfer(std::move(h)) of a packet on the stand-alone packet service.
HeapTransfer(h) ==
    /\ Focus("packet")
    /\ HoldsPacket(h)
    /\ \E sdu \in {ChainSeq(heap, heap.held[h])} :
          \E e \in {packet_service_transfer(World, pkt, sdu)} :
          LET rx == Reached(pkt, e)
          IN  /\ Commit(e)
              /\ out' = Observe("packet.transfer", 0,
                                [NoArg EXCEPT !.du = sdu, !.from = h], e, rx)
              /\ hist' = Seen([hist EXCEPT !.focus = "packet"], rx, sdu, FALSE)
              /\ heap' = heap_transfer(heap, pkt.subnetwork, h)
    /\ UNCHANGED <<host, loopback, stub>>

\* service.reception(std::move(h)) on octet service 1: the payload goes to the
\* indication, the header ends with the call.
HeapReception(h) ==
    /\ Focus("octet")
    /\ HoldsPacket(h)
    /\ \E pdu \in {ChainSeq(heap, heap.held[h])} :
          \E r \in {octet_service_reception(World, 1, pdu)} :
          LET e == Effect(r.w, "void", << >>, r.ind)
          IN  /\ Commit(e)
              /\ out' = Observe("octet.reception", 1,
                                [NoArg EXCEPT !.du = pdu, !.from = h], e, 1)
              /\ hist' = Seen([hist EXCEPT !.focus = "octet"], 1, pdu, FALSE)
              /\ heap' = du_reset(heap, h)
    /\ UNCHANGED <<host, loopback, stub>>

\* The data units alone: a caller that never hands a chain to a service.
InitChain == Constructed("little", 427, "test_service")

NextChain ==
    \/ \E h \in Callers : MakeUnique(h)
    \/ \E x \in Callers, h \in Movable : DuAppend(x, h)
    \/ \E x \in Callers : DuPop(x)
    \/ \E h \in Movable : DuReset(h)

SpecChain == InitChain /\ [][NextChain]_vars

\* The data units and the services.
InitHeap ==
    \E subnetwork \in {"test_service", "loopback_service"} :
        Constructed("little", 427, subnetwork)

NextHeap ==
    \/ \E h \in Callers : MakeUnique(h)
    \/ \E x \in Callers, h \in Movable : DuAppend(x, h)
    \/ \E x \in Callers : DuPop(x)
    \/ \E h \in Movable : DuReset(h)
    \/ \E h \in Movable : HeapRequest(h)
    \/ \E h \in Movable : HeapTransfer(h)
    \/ \E h \in Callers : HeapReception(h)

SpecHeap == InitHeap /\ [][NextHeap]_vars

-----------------------------------------------------------------------------
(* Vocabulary of the properties.                                           *)

CounterRequest == out.op = "octet.request"
NameRequest == out.op = "octet.request_name"
\* The latest call handed a chain to a subnetwork.
Forwarded == out.xfer # << >>
\* The header of the chain handed to the subnetwork.
SentHeader == out.xfer[1][1]
\* Total size of the payload passed to the latest request.
PayloadSize == totalSize(out.arg.du)

\* An octet service was handed a packet in the latest call, directly or
\* through the loopback; the packet it was handed.
OctetReceived == out.before.rx # 0
PacketReceived == out.op = "packet.reception"
ReceivedPdu ==
    IF out.op \in {"octet.reception", "packet.reception"} THEN out.arg.du
    ELSE out.xfer[1]
\* The sequence value of the received packet as its receiver decodes it: the
\* octet service from wire order, the packet service from the raw field.
ReceivedSeq ==
    IF PacketReceived THEN ReceivedPdu[1].sequence_control % 16384
    ELSE WireSeq(ReceivedPdu[1])
Successor(l) == (l + 1) % 16384
\* The latest call reported a reception to an indication.
Reported == out.ind # << >>
\* Nothing had been handed to the receiver before the latest call.
FirstReceived ==
    /\ out.before.lastSeq = -1
    /\ ~out.before.ext
    /\ out.before.count = 0
    /\ ~out.before.named

-----------------------------------------------------------------------------
(* C1, as stated: for every payload of total size n >= 1 and every         *)
(* configured APID a, the packet a counter-based request hands to the      *)
(* subnetwork decodes to APID a, type t, secondary flag s, data length     *)
(* n - 1, and has total size n + 6.                                        *)
C1_AsStated ==
    (CounterRequest /\ Forwarded /\ PayloadSize >= 1) =>
        /\ WireApid(SentHeader) = oct[out.inst].id
        /\ WireType(SentHeader) = out.arg.type
        /\ WireSecHdr(SentHeader) = BoolToInt(out.arg.secondary)
        /\ WireLength(SentHeader) = PayloadSize - 1
        /\ totalSize(out.xfer[1]) = PayloadSize + 6

(* C1, amended: the same for payloads of total size 1..65536 and APIDs     *)
(* 0..0x7FF, the values the 16-bit and 11-bit fields can hold.             *)
C1_Assembly ==
    (/\ CounterRequest /\ Forwarded
     /\ PayloadSize >= 1 /\ PayloadSize <= U16
     /\ oct[out.inst].id <= PACKET_APID_MASK) =>
        /\ WireApid(SentHeader) = oct[out.inst].id
        /\ WireType(SentHeader) = out.arg.type
        /\ WireSecHdr(SentHeader) = BoolToInt(out.arg.secondary)
        /\ WireLength(SentHeader) = PayloadSize - 1
        /\ totalSize(out.xfer[1]) = PayloadSize + 6

C1_Witness ==
    /\ CounterRequest /\ Forwarded
    /\ PayloadSize = U16
    /\ oct[out.inst].id = 427
    /\ WireLength(SentHeader) = U16 - 1

(* C2: the six header octets in memory are the big-endian layout           *)
(* [version:3][type:1][sec_hdr:1][APID:11] [seq_flags:2][count_or_name:14] *)
(* [length-1:16] on either host; the unit test's first counter-based       *)
(* packet is 11 AB C0 00 00 09 and its named packet 11 AB DA 5A 00 09.     *)
C2_Layout ==
    ((CounterRequest \/ NameRequest) /\ Forwarded) =>
        LET b    == HeaderBytes(SentHeader)
            apid == oct[out.inst].id % 2048
            type == IF NameRequest THEN TELECOMMAND ELSE out.arg.type
            seq  == IF NameRequest THEN out.arg.name % 16384
                    ELSE out.before.count % 16384
            len  == (PayloadSize - 1) % U16
            test == /\ oct[out.inst].id = 427 /\ out.arg.du = TestPayload
                    /\ ~out.arg.secondary /\ type = TELECOMMAND
        IN  /\ b[1] = 0 * 32 + type * 16 + BoolToInt(out.arg.secondary) * 8
                       + apid \div 256
            /\ b[2] = apid % 256
            /\ b[3] = 3 * 64 + seq \div 256
            /\ b[4] = seq % 256
            /\ b[5] = len \div 256
            /\ b[6] = len % 256
            /\ (test /\ CounterRequest /\ out.before.count = 0)
                   => b = <<17, 171, 192, 0, 0, 9>>
            /\ (test /\ NameRequest /\ out.arg.name = 6746)
                   => b = <<17, 171, 218, 90, 0, 9>>

C2_Witness ==
    /\ NameRequest /\ Forwarded
    /\ host = "little"
    /\ out.arg.name = 6746
    /\ HeaderBytes(SentHeader) = <<17, 171, 218, 90, 0, 9>>

(* C3: on a fresh octet service the k-th counter-based request, k from 0,  *)
(* emits sequence count k mod 16384, so request 16384 emits 0 again, and   *)
(* past 65536 requests as well.                                            *)
C3_SequenceCount ==
    (CounterRequest /\ Forwarded) =>
        /\ WireSeq(SentHeader) = out.before.count % 16384
        /\ out.before.count \in {16384, 65536} => WireSeq(SentHeader) = 0

C3_Witness ==
    /\ CounterRequest /\ Forwarded
    /\ out.before.count = 65537
    /\ WireSeq(SentHeader) = 1

(* C4: a name-based request leaves the running counter alone; among        *)
(* name-based requests a counter-based request still emits the number of   *)
(* earlier counter-based requests mod 16384.                               *)
C4_NameKeepsCounter ==
    /\ NameRequest =>
          /\ oct[out.inst].packet_count = out.before.count % U16
          /\ hist.count[out.inst] = out.before.count
    /\ (CounterRequest /\ Forwarded /\ out.before.named) =>
          WireSeq(SentHeader) = out.before.count % 16384

C4_Witness ==
    /\ CounterRequest /\ Forwarded
    /\ out.before.named
    /\ out.before.count = 1
    /\ WireSeq(SentHeader) = 1

(* C5, as stated: the first packet a service receives after construction   *)
(* is reported with packet_loss = false whatever its sequence value.       *)
C5_FirstNeverLost ==
    ((OctetReceived \/ PacketReceived) /\ FirstReceived /\ Reported) =>
        ~out.ind[1].loss

(* C6: after a packet with sequence value L was accepted, a packet with    *)
(* sequence value (L+1) mod 16384 is reported with packet_loss = false,    *)
(* 16383 followed by 0 included.                                           *)
C6_SuccessorNotLost ==
    (/\ OctetReceived \/ PacketReceived
     /\ out.before.lastSeq >= 0
     /\ ReceivedSeq = Successor(out.before.lastSeq)
     /\ Reported) =>
        ~out.ind[1].loss

C6_Witness ==
    /\ out.op = "octet.reception"
    /\ out.before.lastSeq = 16383
    /\ ReceivedSeq = 0
    /\ Reported
    /\ ~out.ind[1].loss

\* The same vocabulary on an observation o.
ObsPdu(o) == IF o.op = "octet.reception" THEN o.arg.du ELSE o.xfer[1]
\* Octet service r took the packet of observation o past its APID filter.
ObsAccepted(o, r) ==
    /\ r # 0
    /\ o.before.rx = r
    /\ WireApid(ObsPdu(o)[1]) = oct[r].id
ObsFlagged(o) == o.ind # << >> /\ o.ind[1].loss

(* C7: with L the last accepted sequence value, a packet whose count is    *)
(* not (L+1) mod 16384 is reported lost and its count becomes last_count;  *)
(* the packet after it, with the next count, is not reported lost.         *)
C7_GapFlaggedOnce ==
    [][ LET o == out'
            r == o.before.rx
        IN  (ObsAccepted(o, r) /\ o.before.lastSeq >= 0) =>
              /\ WireSeq(ObsPdu(o)[1]) # Successor(o.before.lastSeq) =>
                    /\ oct'[r].last_count = WireSeq(ObsPdu(o)[1])
                    /\ o.ind # << >> => o.ind[1].loss
              /\ (/\ ObsAccepted(out, r)
                  /\ ObsFlagged(out)
                  /\ WireSeq(ObsPdu(o)[1]) = Successor(WireSeq(ObsPdu(out)[1]))
                  /\ o.ind # << >>) =>
                    ~o.ind[1].loss ]_vars

C7_Witness ==
    /\ out.op = "octet.reception"
    /\ ObsAccepted(out, 1)
    /\ out.before.lastSeq = 0
    /\ ReceivedSeq = 16383
    /\ ObsFlagged(out)
    /\ oct[1].last_count = 16383

(* C8: an octet service handed a packet whose header APID differs from    *)
(* its configured APID invokes no indication and reports no error.         *)
C8_ApidFilter ==
    (OctetReceived /\ WireApid(ReceivedPdu[1]) # oct[out.before.rx].id) =>
        /\ out.ind = << >>
        /\ out.ret \in {"void", NONE}

C8_Witness ==
    /\ out.op = "octet.reception"
    /\ WireApid(ReceivedPdu[1]) = 717
    /\ oct[1].id = 427
    /\ oct[1].callback # "nullptr"
    /\ out.ind = << >>

(* C9: through the loopback, a request on an octet service with APID in    *)
(* 0..0x7FF and a registered indication yields exactly one indication,     *)
(* with the payload chain passed to request and the APID; in a stream of   *)
(* counter-based requests alone on a fresh service, without packet loss.   *)
C9_LoopbackRoundTrip ==
    (/\ CounterRequest \/ NameRequest
     /\ oct[out.inst].service.subnetwork = "loopback_service"
     /\ loopback.service = out.inst
     /\ oct[out.inst].id <= PACKET_APID_MASK
     /\ oct[out.inst].callback # "nullptr") =>
        /\ Len(out.ind) = 1
        /\ out.ind[1].by = "octet_service"
        /\ out.ind[1].inst = out.inst
        /\ out.ind[1].du = out.arg.du
        /\ out.ind[1].id = oct[out.inst].id
        /\ (CounterRequest /\ ~out.before.named /\ ~out.before.ext) =>
              ~out.ind[1].loss

C9_Witness ==
    /\ CounterRequest
    /\ oct[out.inst].service.subnetwork = "loopback_service"
    /\ out.before.count = 1
    /\ ~out.before.named /\ ~out.before.ext
    /\ Len(out.arg.du) = 2
    /\ Len(out.ind) = 1
    /\ out.ind[1].du = out.arg.du
    /\ ~out.ind[1].loss

(* C10: with no subnetwork configured, packet_service::transfer and both   *)
(* octet_service::request overloads return NO_NETWORK; no subnetwork, no   *)
(* service and no indication is handed the payload.                        *)
C10_NoNetwork ==
    (/\ out.op \in {"packet.transfer", "octet.request", "octet.request_name"}
     /\ (IF out.inst = 0 THEN pkt.subnetwork
         ELSE oct[out.inst].service.subnetwork) = "nullptr") =>
        /\ out.ret = NO_NETWORK
        /\ out.xfer = << >>
        /\ out.ind = << >>
        /\ last = NullDU
        /\ \A i \in Inst : oct[i].last_count = hist.lastSeq[i]
        /\ pkt.last_count = hist.pktSeq

C10_Witness ==
    /\ NameRequest
    /\ oct[out.inst].service.subnetwork = "nullptr"
    /\ out.ret = NO_NETWORK
    /\ out.xfer = << >>

(* C11: the error the subnetwork's transfer returns, NONE included, is     *)
(* the error packet_service::transfer, packet_service::request and both    *)
(* octet_service::request overloads return.                                *)
SendOps == {"packet.transfer", "packet.request", "octet.request", "octet.request_name"}
\* The subnetwork of the service the latest call was made on.
UsedSubnetwork ==
    IF out.inst = 0 THEN pkt.subnetwork ELSE oct[out.inst].service.subnetwork
\* What that subnetwork's transfer returns.
SubnetworkAnswer == IF UsedSubnetwork = "error_service" THEN stub.answer ELSE NONE

C11_ErrorPropagates ==
    (out.op \in SendOps /\ Forwarded) => out.ret = SubnetworkAnswer

C11_Witness ==
    /\ NameRequest /\ Forwarded
    /\ UsedSubnetwork = "error_service"
    /\ stub.answer = NO_SUPPORT
    /\ out.ret = NO_SUPPORT

(* C12: transfer called on an octet service returns NO_SUPPORT, hands      *)
(* nothing to the packet service or the subnetwork, invokes no indication  *)
(* and leaves packet_count and last_count as they were.                    *)
C12_TransferNoSupport ==
    [][ out'.op = "octet.transfer" =>
          /\ out'.ret = NO_SUPPORT
          /\ out'.xfer = << >>
          /\ out'.ind = << >>
          /\ oct' = oct
          /\ pkt' = pkt
          /\ last' = last ]_vars

C12_Witness ==
    /\ out.op = "octet.transfer"
    /\ out.ret = NO_SUPPORT
    /\ oct[out.inst].service.subnetwork = "loopback_service"
    /\ oct[out.inst].callback # "nullptr"
    /\ oct[out.inst].packet_count = 1
    /\ oct[out.inst].last_count = 0

(* C13: an octet_service::request makes exactly one call of the            *)
(* subnetwork's transfer, with the header node followed by every node of   *)
(* the payload, or no call at all when no subnetwork is configured; never  *)
(* a header without its payload, never two calls.                          *)
C13_NoPartialSend ==
    (CounterRequest \/ NameRequest) =>
        IF UsedSubnetwork = "nullptr"
        THEN out.xfer = << >>
        ELSE /\ Len(out.xfer) = 1
             /\ out.xfer[1][1].type = "pdu"
             /\ Tail(out.xfer[1]) = out.arg.du
             /\ \A k \in 2..Len(out.xfer[1]) : out.xfer[1][k].type = "buffered_du"

C13_Witness ==
    /\ CounterRequest
    /\ UsedSubnetwork = "test_service"
    /\ Len(out.arg.du) = 2
    /\ Len(out.xfer) = 1
    /\ Len(out.xfer[1]) = 3
    /\ last = out.xfer[1]

(* C14: for a chain of any length, three nodes and more included,          *)
(* totalSize() of the head is the sum of size() over all its nodes and     *)
(* length() is the number of its nodes.                                    *)
\* The chains the latest call was given, handed on or reported, and the one
\* the dead-end subnetwork holds.
ObservedChains ==
    ({out.arg.du, last} \cup {out.xfer[k] : k \in 1..Len(out.xfer)}
        \cup {out.ind[k].du : k \in 1..Len(out.ind)}) \ {NullDU}
\* size() of the first k nodes of c, added up from the far end.
RECURSIVE SumOfSizes(_, _)
SumOfSizes(c, k) == IF k = 0 THEN 0 ELSE SumOfSizes(c, k - 1) + size(c[k])

C15_AppendPopRoundTrip ==
    [][ (/\ out.op = "du.append"
         /\ out.arg.succ = 0
         /\ out.arg.from # out.arg.on
         /\ out'.op = "du.pop"
         /\ out'.arg.on = out.arg.on) =>
            LET x == heap.held[out.arg.on]
            IN  /\ out'.arg.ids = out.arg.ids
                /\ out'.arg.du = out.arg.du
                /\ heap'.held["r"] = IF out.arg.ids = << >> THEN 0 ELSE out.arg.ids[1]
                /\ heap'.held[out.arg.on] = x
                /\ heap'.obj[x].ptr = 0
                /\ du_length(heap', x) = 1
                /\ du_totalSize(heap', x) = size(heap'.obj[x].du) ]_vars

C15_Witness ==
    /\ out.op = "du.pop"
    /\ out.arg.from \in Callers
    /\ Len(out.arg.ids) = 2
    /\ heap.held["r"] = out.arg.ids[1]
    /\ du_length(heap, heap.held["r"]) = 2
    /\ du_length(heap, heap.held[out.arg.on]) = 1

(* C16, as stated: append(du) on a node without successor makes du its     *)
(* successor; append(du) on a node that has a successor fails and leaves   *)
(* that successor attached.                                                *)
C16_AppendKeepsSuccessor ==
    [][ (/\ out'.op = "du.append"
         /\ out'.arg.from # out'.arg.on
         /\ heap.held[out'.arg.from] # 0) =>
            LET x == heap.held[out'.arg.on]
            IN  IF heap.obj[x].ptr = 0
                THEN heap'.obj[x].ptr = heap.held[out'.arg.from]
                ELSE heap'.obj[x].ptr = heap.obj[x].ptr ]_vars

(* C16, amended: append(du) makes du the successor of the node whether or  *)
(* not it had one; a successor it had is detached and destroyed with the   *)
(* rest of its chain, and the caller is told nothing.                      *)
C16_AppendReplaces ==
    [][ out'.op = "du.append" =>
            LET x   == heap.held[out'.arg.on]
                old == heap.obj[x].ptr
            IN  /\ heap'.obj[x].ptr = heap.held[out'.arg.from]
                /\ out'.arg.from # out'.arg.on => heap'.held[out'.arg.from] = 0
                /\ \A m \in Reach(heap, old, {}) : m \notin DOMAIN heap'.obj
                /\ out'.ret = "void" ]_vars

C16_Witness ==
    /\ out.op = "du.append"
    /\ out.arg.from # out.arg.on
    /\ out.arg.succ # 0
    /\ out.arg.ids # << >>
    /\ heap.obj[heap.held[out.arg.on]].ptr = out.arg.ids[1]
    /\ out.arg.succ \notin DOMAIN heap.obj

(* C17, as stated: after any sequence of append, pop, request, transfer    *)
(* and reception every data unit has exactly one owner, its predecessor    *)
(* in a chain or one holder of a head; no node is reached from two chains; *)
(* no chain has a cycle.                                                   *)
Owners(n) ==
    Cardinality({h \in Handles : heap.held[h] = n})
        + Cardinality({m \in DOMAIN heap.obj : heap.obj[m].ptr = n})

C17_SingleOwnerNoCycle ==
    /\ \A n \in DOMAIN heap.obj :
          /\ Owners(n) = 1
          /\ n \notin Reach(heap, heap.obj[n].ptr, {})
    /\ \A g, h \in Handles :
          g # h => Reach(heap, heap.held[g], {}) \cap Reach(heap, heap.held[h], {}) = {}

(* C18: packet_service::reception does not filter on the APID.  With an    *)
(* indication registered it is invoked exactly once for every received     *)
(* packet, whatever the APID, with the whole packet, header node first,    *)
(* the APID the header field holds as the packet service reads it, and     *)
(* the loss flag of the sequence check.                                    *)
C18_PacketReceptionUnfiltered ==
    (PacketReceived /\ pkt.callback # "nullptr") =>
        /\ Len(out.ind) = 1
        /\ out.ind[1].by = "packet_service"
        /\ out.ind[1].du = out.arg.du
        /\ out.ind[1].du[1].type = "pdu"
        /\ out.ind[1].id = out.arg.du[1].identification % 2048
        /\ out.before.lastSeq >= 0 =>
              (out.ind[1].loss <=> ReceivedSeq # Successor(out.before.lastSeq))

C18_Witness ==
    /\ PacketReceived
    /\ pkt.callback # "nullptr"
    /\ out.arg.du[1].identification = 717
    /\ Len(out.arg.du) = 2
    /\ out.before.lastSeq = 0
    /\ ReceivedSeq = 16383
    /\ Len(out.ind) = 1
    /\ out.ind[1].id = 717
    /\ out.ind[1].loss

(* C19: the loss tracking of an octet service and that of a packet         *)
(* service are independent.  A reception by an octet service neither       *)
(* reads nor changes the last_count of its internal packet service or of   *)
(* any other; a reception by a packet service changes neither last_count   *)
(* nor packet_count of an octet service.                                   *)
\* The world with every packet service's last_count set to v.
WithPacketLastCount(v) ==
    [World EXCEPT !.pkt.last_count = v,
                  !.oct = [i \in Inst |-> [oct[i] EXCEPT !.service.last_count = v]]]

C19_IndependentLossState ==
    [][ /\ out'.before.rx # 0 =>
              /\ \A i \in Inst : oct'[i].service = oct[i].service
              /\ pkt' = pkt
        /\ out'.op = "octet.reception" =>
              \A v \in {-1, 0, 16382} :
                  LET r == octet_service_reception(WithPacketLastCount(v),
                                                   out'.inst, out'.arg.du)
                  IN  /\ r.ind = out'.ind
                      /\ r.w.oct[out'.inst].last_count = oct'[out'.inst].last_count
        /\ out'.op = "packet.reception" => oct' = oct ]_vars

C19_Witness ==
    /\ out.op = "octet.reception"
    /\ Reported
    /\ oct[1].last_count = 16383
    /\ oct[1].service.last_count = -1
    /\ pkt.last_count = -1

(* C20: the qos argument of packet_service::request has no effect.  For    *)
(* any qos, request returns the error, hands on the chain and leaves the   *)
(* state that transfer does on the same packet in the same state, and so   *)
(* the same for any two qos values.                                        *)
C20_QosUnused ==
    [][ out'.op = "packet.request" =>
            LET e == packet_service_transfer(World, pkt, out'.arg.du)
            IN  /\ out'.ret = e.ret
                /\ out'.xfer = e.xfer
                /\ out'.ind = e.ind
                /\ oct' = e.w.oct
                /\ pkt' = e.w.pkt
                /\ last' = e.w.last
                /\ \A q \in Qos :
                      packet_service_request(World, pkt, out'.arg.du, q) = e ]_vars

C20_Witness ==
    /\ out.op = "packet.request"
    /\ out.arg.qos = 1
    /\ pkt.subnetwork = "test_service"
    /\ out.ret = NONE
    /\ out.xfer = <<out.arg.du>>
    /\ last = out.arg.du

(* C21: the indication is invoked from within the reception call: when a   *)
(* request through the loopback on an octet service with APID in 0..0x7FF  *)
(* and a registered indication has returned its error, the one indication  *)
(* for the packet has been invoked and last_count is the count of the      *)
(* packet just sent.                                                       *)
C21_SynchronousIndication ==
    (/\ CounterRequest \/ NameRequest
     /\ oct[out.inst].service.subnetwork = "loopback_service"
     /\ loopback.service = out.inst
     /\ oct[out.inst].id <= PACKET_APID_MASK
     /\ oct[out.inst].callback # "nullptr") =>
        /\ out.ret = NONE
        /\ Forwarded
        /\ Len(out.ind) = 1
        /\ out.ind[1].du = Tail(out.xfer[1])
        /\ oct[out.inst].last_count = WireSeq(SentHeader)

C21_Witness ==
    /\ NameRequest
    /\ oct[out.inst].service.subnetwork = "loopback_service"
    /\ oct[out.inst].callback = "test_indication"
    /\ out.ret = NONE
    /\ Len(out.ind) = 1
    /\ out.arg.name = 6746
    /\ oct[out.inst].last_count = 6746

(* C22: every packet either request overload hands to the subnetwork has   *)
(* version 0 and sequence flags 0b11, whatever the input: a name of 0x4000 *)
(* or more is cut to its low 14 bits, an APID of 0x800 or more to its low  *)
(* 11 bits, and neither reaches the version, type, secondary-header or     *)
(* sequence-flag bits; the name overload always sends a telecommand.       *)
C22_FixedHeaderBits ==
    ((CounterRequest \/ NameRequest) /\ Forwarded) =>
        /\ WireVersion(SentHeader) = 0
        /\ WireSeqFlags(SentHeader) = SEQUENCE_UNSEGMENTED
        /\ WireApid(SentHeader) = oct[out.inst].id % 2048
        /\ WireSecHdr(SentHeader) = BoolToInt(out.arg.secondary)
        /\ WireType(SentHeader) = IF NameRequest THEN TELECOMMAND ELSE out.arg.type
        /\ NameRequest => WireSeq(SentHeader) = out.arg.name % 16384

C22_Witness ==
    /\ NameRequest
    /\ Forwarded
    /\ out.arg.name = 16385
    /\ oct[out.inst].id = 2475
    /\ ~out.arg.secondary
    /\ WireSeqFlags(SentHeader) = 3
    /\ WireSeq(SentHeader) = 1
    /\ WireApid(SentHeader) = 427
    /\ WireSecHdr(SentHeader) = 0
    /\ WireType(SentHeader) = TELECOMMAND

(* C23: assembly neither copies nor alters the payload: the chain handed   *)
(* to the subnetwork is one 6-octet header node followed by the caller's   *)
(* payload nodes, each with the caller's buffer and size, in their order,  *)
(* so length(packet) = length(payload) + 1.                                *)
C23_PayloadUntouched ==
    ((CounterRequest \/ NameRequest) /\ Forwarded) =>
        LET packet  == out.xfer[1]
            payload == out.arg.du
        IN  /\ packet[1].type = "pdu"
            /\ size(packet[1]) = 6
            /\ length(packet) = length(payload) + 1
            /\ Len(packet) = Len(payload) + 1
            /\ \A k \in 1..Len(payload) :
                  /\ packet[k + 1].type = "buffered_du"
                  /\ packet[k + 1].buffer = payload[k].buffer
                  /\ size(packet[k + 1]) = size(payload[k])
            /\ totalSize(packet) = totalSize(payload) + 6

C23_Witness ==
    /\ CounterRequest
    /\ Forwarded
    /\ length(out.arg.du) = 3
    /\ length(out.xfer[1]) = 4
    /\ out.xfer[1][2].buffer = "data" /\ size(out.xfer[1][2]) = 10
    /\ out.xfer[1][3].buffer = "more" /\ size(out.xfer[1][3]) = 3
    /\ out.xfer[1][4].buffer = "tail" /\ size(out.xfer[1][4]) = 1

(* C24: for every x in 0..65535, ntohs(htons(x)) = x and                   *)
(* swaps(swaps(x)) = x; on a little-endian host htons(x) is the swapped    *)
(* value and the field holding it has the high-order byte of x first in    *)
(* memory.                                                                 *)
C24_ByteOrderInverse ==
    out.op = "byte_order" =>
        LET x == out.arg.name
        IN  /\ out.ret.back = x
            /\ out.ret.twice = x
            /\ out.ret.swaps = 256 * (x % 256) + (x \div 256)
            /\ host = "little" =>
                  /\ out.ret.htons = out.ret.swaps
                  /\ out.ret.bytes = <<x \div 256, x % 256>>

C24_Witness ==
    /\ out.op = "byte_order"
    /\ host = "little"
    /\ out.arg.name = 65279
    /\ out.ret.htons = 65534
    /\ out.ret.back = 65279
    /\ out.ret.bytes = <<254, 255>>

C26_CounterAdvancesOnFailure ==
    [][out'.op = "octet.request" =>
          /\ oct'[out'.inst].packet_count = (oct[out'.inst].packet_count + 1) % U16
          /\ out'.ret = NONE =>
                /\ out'.xfer # << >>
                /\ WireSeq(out'.xfer[1][1]) =
                      (hist.sent[out'.inst] + 1 + hist.failed[out'.inst]) % 16384]_vars

C26_Witness ==
    /\ CounterRequest
    /\ out.ret = NO_NETWORK
    /\ out.before.count = 2
    /\ hist.sent[1] = 0
    /\ hist.failed[1] = 2
    /\ oct[1].packet_count = 3

\* Octet service r dropped the packet of observation o at its APID filter.
ObsDropped(o, r) ==
    /\ r # 0
    /\ o.before.rx = r
    /\ WireApid(ObsPdu(o)[1]) # oct[r].id

(* C27: a packet dropped by the APID filter leaves last_count unchanged,   *)
(* and a reception that drops changes nothing of any service; so when a    *)
(* packet of another APID comes between the accepted packet with count L  *)
(* and the packet with count (L+1) mod 16384 of the own APID, the latter   *)
(* is not reported lost.                                                   *)
C27_DroppedLeavesLastCount ==
    [][ LET o == out'
            r == o.before.rx
        IN  /\ ObsDropped(o, r) =>
                  /\ oct'[r].last_count = oct[r].last_count
                  /\ o.op = "octet.reception" => oct' = oct
                  /\ o.ind = << >>
            /\ (/\ ObsDropped(out, r)
                /\ ObsAccepted(o, r)
                /\ out.before.lastSeq >= 0
                /\ WireSeq(ObsPdu(o)[1]) = Successor(out.before.lastSeq)
                /\ o.ind # << >>) =>
                  ~o.ind[1].loss ]_vars

C27_Witness ==
    /\ out.op = "octet.reception"
    /\ ObsDropped(out, out.inst)
    /\ oct[out.inst].callback = "test_indication"
    /\ out.before.lastSeq = 0
    /\ WireSeq(out.arg.du[1]) = 16383
    /\ oct[out.inst].last_count = 0
    /\ out.ind = << >>

(* C28: handed the same packets, with headers in wire order as the         *)
(* assembly of an octet service writes them and with the APID of the       *)
(* octet service, packet_service::reception and octet_service::reception   *)
(* report the same APID and the same loss flag for every packet.           *)
C28_ReceptionsAgree ==
    (out.op = "both.reception" /\ Len(out.ind) = 2) =>
        /\ out.ind[1].id = out.ind[2].id
        /\ out.ind[1].loss = out.ind[2].loss

(* C29: request rejects no payload for its size: with a payload of total   *)
(* size 0 or above 65536 and a subnetwork configured, the packet is handed *)
(* to the subnetwork with the whole payload and the subnetwork's answer,   *)
(* NONE included, is returned; the data length field holds                 *)
(* (total size - 1) mod 65536, which is 0xFFFF for the empty payload.      *)
C29_NoSizeCheck ==
    (/\ CounterRequest \/ NameRequest
     /\ UsedSubnetwork # "nullptr"
     /\ PayloadSize = 0 \/ PayloadSize > U16) =>
        /\ Forwarded
        /\ Tail(out.xfer[1]) = out.arg.du
        /\ out.ret = SubnetworkAnswer
        /\ WireLength(SentHeader) = (PayloadSize - 1) % U16
        /\ PayloadSize = 0 => WireLength(SentHeader) = U16 - 1
        /\ PayloadSize > U16 => WireLength(SentHeader) = PayloadSize - 1 - U16

C29_Witness ==
    /\ NameRequest
    /\ UsedSubnetwork = "loopback_service"
    /\ PayloadSize = 0
    /\ Forwarded
    /\ out.ret = NONE
    /\ WireLength(SentHeader) = 65535

(* C30: an octet service constructed with an identifier above 0x7FF sends  *)
(* its packets with the identifier cut to 11 bits, and accepts no packet:  *)
(* reception compares the 11-bit APID of the header with the whole         *)
(* identifier, so no indication is made and last_count stays -1, also for  *)
(* the packets the service sent itself through the loopback.               *)
C30_WideIdNeverAccepts ==
    /\ \A i \in Inst : oct[i].id > PACKET_APID_MASK => oct[i].last_count = -1
    /\ (out.inst # 0 /\ oct[out.inst].id > PACKET_APID_MASK
        /\ (CounterRequest \/ NameRequest) /\ Forwarded) =>
            WireApid(SentHeader) = oct[out.inst].id % 2048
    /\ (OctetReceived /\ oct[out.before.rx].id > PACKET_APID_MASK) =>
            out.ind = << >>

C30_Witness ==
    /\ CounterRequest
    /\ out.inst = 1
    /\ out.before.rx = 1
    /\ oct[1].id = 2475
    /\ oct[1].callback = "test_indication"
    /\ WireApid(SentHeader) = 427
    /\ out.ret = NONE
    /\ out.ind = << >>
    /\ oct[1].last_count = -1

\* Observation o is a request of the given kind whose packet octet service r
\* accepted through the loopback.
ObsLooped(o, r, op) == o.op = op /\ ObsAccepted(o, r)

(* C31, as stated: reception treats a name as a count.  A looped-back      *)
(* named packet overwrites last_count with its name and is reported lost   *)
(* when the name is not (last_count + 1) mod 16384; the counter-based      *)
(* packet that follows a named packet reported lost is reported lost too.  *)
C31_AsStated ==
    [][ LET o == out'
            r == o.before.rx
        IN  /\ ObsLooped(o, r, "octet.request_name") =>
                  /\ oct'[r].last_count = o.arg.name % 16384
                  /\ o.ind # << >> =>
                        (o.ind[1].loss <=>
                            o.arg.name % 16384 # Successor(oct[r].last_count))
            /\ (/\ ObsLooped(out, r, "octet.request_name")
                /\ ObsFlagged(out)
                /\ ObsLooped(o, r, "octet.request")
                /\ o.ind # << >>) =>
                  o.ind[1].loss ]_vars

(* C31, amended: the same, but the counter-based packet that follows a     *)
(* named packet is reported lost unless its count is the name plus one     *)
(* mod 16384, whether the named packet was reported lost or not.           *)
C31_NamesAsCounts ==
    [][ LET o == out'
            r == o.before.rx
        IN  /\ ObsLooped(o, r, "octet.request_name") =>
                  /\ oct'[r].last_count = o.arg.name % 16384
                  /\ o.ind # << >> =>
                        (o.ind[1].loss <=>
                            o.arg.name % 16384 # Successor(oct[r].last_count))
            /\ (/\ ObsLooped(out, r, "octet.request_name")
                /\ ObsLooped(o, r, "octet.request")
                /\ o.ind # << >>) =>
                  (o.ind[1].loss <=>
                      WireSeq(o.xfer[1][1]) # Successor(out.arg.name % 16384)) ]_vars

C31_Witness ==
    /\ CounterRequest
    /\ out.before.rx = out.inst
    /\ out.before.named
    /\ out.before.lastSeq = 6746
    /\ WireSeq(SentHeader) = 1
    /\ Len(out.ind) = 1
    /\ out.ind[1].loss
    /\ oct[out.inst].last_count = 1

(* C32: the loss check runs whether or not an indication is registered.    *)
(* A packet received while no callback is set (by an octet service: with   *)
(* its APID) becomes last_count and is reported to nobody; the loss flag   *)
(* of a packet received after a callback was registered tells whether its  *)
(* count follows the last packet received, before registration included.   *)
C32_TrackingWithoutCallback ==
    [][ LET o == out'
            r == o.before.rx
        IN  /\ (ObsAccepted(o, r) /\ oct[r].callback = "nullptr") =>
                  /\ oct'[r].last_count = WireSeq(ObsPdu(o)[1])
                  /\ o.ind = << >>
            /\ (o.op = "packet.reception" /\ pkt.callback = "nullptr") =>
                  /\ pkt'.last_count = o.arg.du[1].sequence_control % 16384
                  /\ o.ind = << >>
            /\ (ObsAccepted(o, r) /\ o.ind # << >> /\ o.before.lastSeq >= 0) =>
                  (o.ind[1].loss <=>
                      WireSeq(ObsPdu(o)[1]) # Successor(o.before.lastSeq))
            /\ (/\ o.op = "packet.reception"
                /\ o.ind # << >>
                /\ o.before.lastSeq >= 0) =>
                  (o.ind[1].loss <=>
                      o.arg.du[1].sequence_control % 16384
                          # Successor(o.before.lastSeq)) ]_vars

C32_Witness ==
    /\ out.op = "octet.reception"
    /\ ObsAccepted(out, out.inst)
    /\ oct[out.inst].callback = "nullptr"
    /\ out.before.lastSeq = 0
    /\ WireSeq(out.arg.du[1]) = 16383
    /\ out.ind = << >>
    /\ oct[out.inst].last_count = 16383

(* C33: pop() on a node without successor returns a null data unit and     *)
(* leaves the node as it was; so an octet service that receives a packet   *)
(* of its APID made of the header alone, with an indication registered,    *)
(* still invokes the indication, once, with a null payload, and last_count *)
(* is updated as for any packet.                                           *)
C33_HeaderOnlyPacket ==
    (/\ out.op = "octet.reception"
     /\ ObsAccepted(out, out.inst)
     /\ length(out.arg.du) = 1
     /\ next(out.arg.du) = NullDU) =>
        /\ pop(out.arg.du).ret = NullDU
        /\ pop(out.arg.du).self = out.arg.du
        /\ out.ret = "void"
        /\ oct[out.inst].last_count = WireSeq(out.arg.du[1])
        /\ oct[out.inst].callback # "nullptr" =>
              /\ Len(out.ind) = 1
              /\ out.ind[1].du = NullDU
              /\ out.ind[1].id = oct[out.inst].id

C33_Witness ==
    /\ out.op = "octet.reception"
    /\ Len(out.arg.du) = 1
    /\ WireApid(out.arg.du[1]) = 427
    /\ oct[out.inst].id = 427
    /\ oct[out.inst].callback = "test_indication"
    /\ Len(out.ind) = 1
    /\ out.ind[1].du = NullDU
    /\ out.ind[1].id = 427

====
